---- MODULE Spec2Model ----
(***************************************************************************)
(* Model of scrape.py: the exploration loop of an Infinite Craft scraper.  *)
(* One sqlite database (tables "elements" and "combination") is shared by  *)
(* the runs of the script; every run has its own DataFrame df, ElementIds  *)
(* registry and History counters.  A run that starts after another has     *)
(* stopped is a restart; a run that starts while another is still in its   *)
(* loop is a concurrent run on the same database.                          *)
(***************************************************************************)
EXTENDS Integers, Sequences, FiniteSets, TLC

VARIABLES
    elements,        \* table "elements": rows [id, element, emoji, discovered]
    combination,     \* table "combination": rows [ingr1, ingr2, out]
    SIMPLE_COMBINES, \* settings.SIMPLE_COMBINES, as every run imported it
    pc,              \* position of every run in main / search_loop
    df,              \* the DataFrame of known recipes of every run
    current,         \* the ElementIds of every run
    history,         \* the History of every run
    ids,             \* random_pair: the two ids as random.sample drew them
    comb,            \* search_loop: the local "combination"
    result,          \* search_loop: the decoded response
    is_new_word,     \* search_loop: is_new_word
    prefix,          \* search_loop: prefix
    status,          \* combine: status code of the last response
    elapsed,         \* backoff: time spent waiting by the current combine call
    requested,       \* whether a request was sent for the pair of the iteration
    printed,         \* tag of the last outcome line printed
    lines,           \* number of outcome lines printed
    before,          \* the History as it was when the iteration began
    server_errors,   \* the pairs whose last answer to the run was HTTP 500
    exit,            \* how main left search_loop
    summary,         \* the History printed by main at the end
    called           \* the arguments of a call of ElementIds.add on its own

vars == <<elements, combination, SIMPLE_COMBINES, pc, df, current, history, ids,
          comb, result, is_new_word, prefix, status, requested, elapsed, before,
          server_errors, printed, lines, exit, summary, called>>

----------------------------------------------------------------------------
(* Bounds of the model *)

\* iterations of the while loop one run may start
MaxChecked == 2
\* iterations all the runs together may start when they run concurrently
MaxStarted == 2
\* the retry budget of backoff (max_time), in units of the shortest wait
MaxTime == 1

Runs == {1, 2}

\* the ids random.sample comes up with: those of Nothing, Water and Fire
DrawnIds == {1, 2, 3}

\* the waits backoff.expo comes up with (full jitter), in the units of MaxTime
Waits == {1, 2}

----------------------------------------------------------------------------
(* Constants of the program *)

NOTHING == "Nothing"

\* the order Python gives the element names of the model (code point order)
NameOrder == <<"Earth", "Fire", "Nothing", "Steam", "Water", "Wind">>

NameRank(name) == CHOOSE i \in 1..Len(NameOrder) : NameOrder[i] = name

StrLess(a, b) == NameRank(a) < NameRank(b)

\* what the service may answer: the sentinel, a seed element, an unseen word
ResultNames == {NOTHING, "Fire", "Steam"}

Emojis == {"cloud"}

Statuses == {200, 403, 429, 500, 503}

\* Python's None, and an absent local, as the empty tuple
None == <<>>

\* response.json() of a 200: an empty object, or result/emoji/isNew
Bodies == {None} \cup {<<b>> : b \in [result : ResultNames, emoji : Emojis, isNew : BOOLEAN]}

NoPair == <<>>

----------------------------------------------------------------------------
(* ElementIds *)

ElementIds_init == [id_to_element |-> <<>>, element_to_id |-> <<>>]

add(cur, element, id) ==
    [id_to_element |-> (id :> element) @@ cur.id_to_element,
     element_to_id |-> (element :> id) @@ cur.element_to_id]

get_element(cur, id) == cur.id_to_element[id]

get_id(cur, element) == cur.element_to_id[element]

has_element(cur, element) == element \in DOMAIN cur.element_to_id

\* the rows of "SELECT id, element FROM elements" in id order
RECURSIVE load_rows(_, _)
load_rows(cur, rows) ==
    IF rows = {} THEN cur
    ELSE LET r == CHOOSE x \in rows : \A y \in rows : x.id <= y.id
         IN load_rows(add(cur, r.element, r.id), rows \ {r})

load_data(cur, table) == load_rows(cur, table)

\* Python's order on (name, id) tuples
TupleLess(a, b) == StrLess(a[1], b[1]) \/ (a[1] = b[1] /\ a[2] < b[2])

sorted(a, b) == IF TupleLess(b, a) THEN <<b, a>> ELSE <<a, b>>

\* random_pair without the call of sorted
random_pair_unsorted(cur, drawn) ==
    <<<<get_element(cur, drawn[1]), drawn[1]>>, <<get_element(cur, drawn[2]), drawn[2]>>>>

random_pair(cur, drawn) ==
    sorted(<<get_element(cur, drawn[1]), drawn[1]>>,
           <<get_element(cur, drawn[2]), drawn[2]>>)

\* the lists of two keys random.choices may return: with replacement
Samples_with_replacement(cur) ==
    {d \in (DOMAIN cur.id_to_element) \X (DOMAIN cur.id_to_element) :
        d[1] \in DrawnIds /\ d[2] \in DrawnIds}


\* the lists random.sample may return when the sentinel is left out of the keys
Samples_without_nothing(cur) ==
    {d \in (DOMAIN cur.id_to_element) \X (DOMAIN cur.id_to_element) :
        /\ d[1] # d[2] /\ d[1] \in DrawnIds /\ d[2] \in DrawnIds
        /\ get_element(cur, d[1]) # NOTHING /\ get_element(cur, d[2]) # NOTHING}


\* the lists of two distinct keys random.sample may return
Samples(cur) ==
    {d \in (DOMAIN cur.id_to_element) \X (DOMAIN cur.id_to_element) :
        d[1] # d[2] /\ d[1] \in DrawnIds /\ d[2] \in DrawnIds}

----------------------------------------------------------------------------
(* History *)

History == [checked |-> 0, new_recipes |-> 0, new_additions |-> 0, first_evers |-> 0]

----------------------------------------------------------------------------
(* helpers of the loop *)

\* settings.NON_SIMPLE_CHARS: the characters that make a name not simple
NON_SIMPLE_CHARS == {" ", "-"}

\* bool() of a generator object is True whatever the generator would yield
are_chars_in_string(string) == TRUE

\* the two ids of a combination, left and right
IdPair(combo) == <<combo[1][2], combo[2][2]>>

\* recipe_exists with id_left and id_right taken from the wrong places
recipe_exists_swapped(frame, combo) ==
    \E r \in frame : r.ingr1 = combo[2][2] /\ r.ingr2 = combo[1][2]

recipe_exists(frame, combo) ==
    \E r \in frame : r.ingr1 = combo[1][2] /\ r.ingr2 = combo[2][2]

\* the five rows populate_if_empty inserts, ids given by sqlite in order
SeedElements ==
    {[id |-> 1, element |-> NOTHING, emoji |-> "", discovered |-> FALSE],
     [id |-> 2, element |-> "Water", emoji |-> "droplet", discovered |-> FALSE],
     [id |-> 3, element |-> "Fire", emoji |-> "fire", discovered |-> FALSE],
     [id |-> 4, element |-> "Wind", emoji |-> "wind", discovered |-> FALSE],
     [id |-> 5, element |-> "Earth", emoji |-> "globe", discovered |-> FALSE]}

\* c.lastrowid of an insert into a table whose rows are never deleted
lastrowid(table) == Cardinality(table) + 1

ElementNames(table) == {r.element : r \in table}

----------------------------------------------------------------------------
Init ==
    /\ elements = {}
    /\ combination = {}
    /\ SIMPLE_COMBINES \in [Runs -> BOOLEAN]
    /\ pc = [p \in Runs |-> "main"]
    /\ df = [p \in Runs |-> {}]
    /\ current = [p \in Runs |-> ElementIds_init]
    /\ history = [p \in Runs |-> History]
    /\ ids = [p \in Runs |-> NoPair]
    /\ comb = [p \in Runs |-> NoPair]
    /\ result = [p \in Runs |-> None]
    /\ is_new_word = [p \in Runs |-> FALSE]
    /\ prefix = [p \in Runs |-> ""]
    /\ status = [p \in Runs |-> 0]
    /\ elapsed = [p \in Runs |-> 0]
    /\ requested = [p \in Runs |-> FALSE]
    /\ printed = [p \in Runs |-> ""]
    /\ lines = [p \in Runs |-> 0]
    /\ before = [p \in Runs |-> History]
    /\ server_errors = [p \in Runs |-> {}]
    /\ exit = [p \in Runs |-> ""]
    /\ summary = [p \in Runs |-> None]
    /\ called = [p \in Runs |-> None]

----------------------------------------------------------------------------
(* frames *)

db == <<elements, combination>>

\* what search_loop never assigns
fixed == <<SIMPLE_COMBINES, called>>

\* what a run holds in memory
memory == <<df, current, history>>

\* the locals of an iteration
locals == <<ids, comb, result, is_new_word, prefix, status, requested, elapsed, before,
            server_errors>>

\* what a run has written to the console
console == <<printed, lines>>

ended == <<exit, summary>>

----------------------------------------------------------------------------
(* main: leaving search_loop *)

\* the except/finally clauses of main and print(history); the memory of the
\* process is gone when it exits.  code is the status of the response that
\* made combine raise, 0 when the run ends for another reason
Stop(p, how, code) ==
    /\ pc' = [pc EXCEPT ![p] = "stopped"]
    /\ exit' = [exit EXCEPT ![p] = how]
    /\ summary' = [summary EXCEPT ![p] = <<history[p]>>]
    /\ df' = [df EXCEPT ![p] = {}]
    /\ current' = [current EXCEPT ![p] = ElementIds_init]
    /\ history' = [history EXCEPT ![p] = History]
    /\ ids' = [ids EXCEPT ![p] = NoPair]
    /\ comb' = [comb EXCEPT ![p] = NoPair]
    /\ result' = [result EXCEPT ![p] = None]
    /\ is_new_word' = [is_new_word EXCEPT ![p] = FALSE]
    /\ prefix' = [prefix EXCEPT ![p] = ""]
    /\ status' = [status EXCEPT ![p] = code]
    /\ requested' = [requested EXCEPT ![p] = FALSE]
    /\ elapsed' = [elapsed EXCEPT ![p] = 0]
    /\ before' = [before EXCEPT ![p] = History]
    /\ server_errors' = [server_errors EXCEPT ![p] = {}]
    /\ printed' = [printed EXCEPT ![p] = ""]
    /\ lines' = [lines EXCEPT ![p] = 0]

\* the locals of an iteration are dead once it has ended
EndIteration(p) ==
    /\ ids' = [ids EXCEPT ![p] = NoPair]
    /\ comb' = [comb EXCEPT ![p] = NoPair]
    /\ result' = [result EXCEPT ![p] = None]
    /\ is_new_word' = [is_new_word EXCEPT ![p] = FALSE]
    /\ prefix' = [prefix EXCEPT ![p] = ""]
    /\ elapsed' = [elapsed EXCEPT ![p] = 0]
    /\ before' = [before EXCEPT ![p] = History]
    /\ pc' = [pc EXCEPT ![p] = "sample"]

\* print(f"{prefix:15}: {text}")
PrintLine(p, tag) ==
    /\ printed' = [printed EXCEPT ![p] = tag]
    /\ lines' = [lines EXCEPT ![p] = @ + 1]

----------------------------------------------------------------------------
(* search_loop: start of a run *)

\* populate_if_empty: SELECT COUNT(*) FROM elements
PopulateIfEmpty(p) ==
    /\ pc[p] = "main"
    /\ pc' = [pc EXCEPT ![p] = IF Cardinality(elements) = 0 THEN "populate" ELSE "read_sql"]
    /\ UNCHANGED <<db, fixed, memory, locals, console, ended>>

\* populate_if_empty: executemany INSERT of the seed rows, then commit; the
\* UNIQUE("element") constraint raises IntegrityError, which main reports
Populate(p) ==
    /\ pc[p] = "populate"
    /\ IF ElementNames(elements) \cap ElementNames(SeedElements) # {}
       THEN /\ Stop(p, "error", 0)
            /\ UNCHANGED elements
       ELSE /\ elements' = elements \cup SeedElements
            /\ pc' = [pc EXCEPT ![p] = "read_sql"]
            /\ UNCHANGED <<memory, locals, console, ended>>
    /\ UNCHANGED <<combination, fixed>>

\* a start of the run that leaves df empty
ReadSql_empty(p) ==
    /\ pc[p] = "read_sql"
    /\ df' = [df EXCEPT ![p] = {}]
    /\ pc' = [pc EXCEPT ![p] = "load_data"]
    /\ UNCHANGED <<db, fixed, current, history, locals, console, ended>>


\* df = pd.read_sql_query("SELECT ingr1, ingr2, out FROM combination", conn)
ReadSql(p) ==
    /\ pc[p] = "read_sql"
    /\ df' = [df EXCEPT ![p] = combination]
    /\ pc' = [pc EXCEPT ![p] = "load_data"]
    /\ UNCHANGED <<db, fixed, current, history, locals, console, ended>>

\* current = ElementIds(); current.load_data(c)
LoadData(p) ==
    /\ pc[p] = "load_data"
    /\ current' = [current EXCEPT ![p] = load_data(ElementIds_init, elements)]
    /\ pc' = [pc EXCEPT ![p] = "sample"]
    /\ UNCHANGED <<db, fixed, df, history, locals, console, ended>>

----------------------------------------------------------------------------
(* search_loop: one iteration *)

\* combination = current.random_pair(); history.checked += 1; the filter
Sample(p) ==
    /\ pc[p] = "sample"
    /\ history[p].checked < MaxChecked
    /\ \E drawn \in Samples(current[p]) :
        LET c == random_pair(current[p], drawn)
        IN  /\ ids' = [ids EXCEPT ![p] = drawn]
            /\ comb' = [comb EXCEPT ![p] = c]
            /\ IF SIMPLE_COMBINES[p]
                    /\ (are_chars_in_string(c[1][1]) \/ are_chars_in_string(c[2][1]))
               THEN UNCHANGED <<pc, before>>
               ELSE /\ before' = [before EXCEPT ![p] = history[p]]
                    /\ pc' = [pc EXCEPT ![p] = "recipe_exists"]
    /\ history' = [history EXCEPT ![p].checked = @ + 1]
    /\ status' = [status EXCEPT ![p] = 0]
    /\ requested' = [requested EXCEPT ![p] = FALSE]
    /\ UNCHANGED <<db, fixed, df, current, result, is_new_word, prefix,
                   elapsed, server_errors, console, ended>>

\* prefix = "SKIP"; if recipe_exists(df, combination): print; continue
RecipeExists(p) ==
    /\ pc[p] = "recipe_exists"
    /\ IF recipe_exists(df[p], comb[p])
       THEN /\ PrintLine(p, "SKIP")
            /\ EndIteration(p)
       ELSE /\ prefix' = [prefix EXCEPT ![p] = "SKIP"]
            /\ ids' = [ids EXCEPT ![p] = NoPair]
            /\ pc' = [pc EXCEPT ![p] = "combine"]
            /\ UNCHANGED <<comb, result, is_new_word, elapsed, before, console>>
    /\ UNCHANGED <<db, fixed, memory, status, requested, server_errors, ended>>

\* NoResult that also notes the pair in df as checked, with the sentinel as out
NoResult_recorded(p, code) ==
    /\ PrintLine(p, "No result")
    /\ EndIteration(p)
    /\ status' = [status EXCEPT ![p] = code]
    /\ requested' = [requested EXCEPT ![p] = TRUE]
    /\ server_errors' = [server_errors EXCEPT ![p] =
                            IF code = 500 THEN @ \cup {IdPair(comb[p])}
                                           ELSE @ \ {IdPair(comb[p])}]
    /\ df' = [df EXCEPT ![p] = @ \cup {[ingr1 |-> comb[p][1][2], ingr2 |-> comb[p][2][2],
                                         out |-> get_id(current[p], NOTHING)]}]
    /\ UNCHANGED <<current, history, ended>>

\* if not result or result is None: prefix = "No result"; print; continue
NoResult(p, code) ==
    /\ PrintLine(p, "No result")
    /\ EndIteration(p)
    /\ status' = [status EXCEPT ![p] = code]
    /\ requested' = [requested EXCEPT ![p] = TRUE]
    /\ server_errors' = [server_errors EXCEPT ![p] =
                            IF code = 500 THEN @ \cup {IdPair(comb[p])}
                                           ELSE @ \ {IdPair(comb[p])}]
    /\ UNCHANGED <<memory, ended>>

\* backoff with raise_on_giveup=False: combine returns None once the budget is
\* spent
Backoff_quiet(p, code) ==
    IF elapsed[p] >= MaxTime
    THEN NoResult(p, code)
    ELSE /\ \E wait \in Waits :
            elapsed' = [elapsed EXCEPT ![p] =
                           IF @ + wait > MaxTime THEN MaxTime ELSE @ + wait]
         /\ status' = [status EXCEPT ![p] = code]
         /\ requested' = [requested EXCEPT ![p] = TRUE]
         /\ UNCHANGED <<pc, memory, ids, comb, result, is_new_word, prefix, before,
                        server_errors, console, ended>>

\* backoff.on_exception(expo, RequestException, max_time): the exception is
\* raised again once the budget is spent, otherwise the call is repeated
\* after a wait
Backoff(p, code) ==
    IF elapsed[p] >= MaxTime
    THEN Stop(p, "error", code)
    ELSE /\ \E wait \in Waits :
            elapsed' = [elapsed EXCEPT ![p] =
                           IF @ + wait > MaxTime THEN MaxTime ELSE @ + wait]
         /\ status' = [status EXCEPT ![p] = code]
         /\ requested' = [requested EXCEPT ![p] = TRUE]
         /\ UNCHANGED <<pc, memory, ids, comb, result, is_new_word, prefix, before,
                        server_errors, console, ended>>

\* the classification without the test "out_elem != NOTHING"
Classify_counts_nothing(p, code, body) ==
    LET out_elem == body.result
        found == TRUE
        new_word == found /\ ~has_element(current[p], out_elem)
        new_ever == new_word /\ body.isNew
    IN  /\ result' = [result EXCEPT ![p] = <<body>>]
        /\ is_new_word' = [is_new_word EXCEPT ![p] = new_word]
        /\ prefix' = [prefix EXCEPT ![p] =
                         IF ~found THEN "NOTHING"
                         ELSE IF ~new_word THEN "NEW RECIPE"
                         ELSE IF ~new_ever THEN "NEW WORD"
                         ELSE "NEW WORD EVER"]
        /\ history' = [history EXCEPT
                          ![p].new_recipes = IF found THEN @ + 1 ELSE @,
                          ![p].new_additions = IF new_word THEN @ + 1 ELSE @,
                          ![p].first_evers = IF new_ever THEN @ + 1 ELSE @]
        /\ pc' = [pc EXCEPT ![p] = IF new_word THEN "insert_element"
                                                ELSE "insert_combination"]
        /\ status' = [status EXCEPT ![p] = code]
        /\ requested' = [requested EXCEPT ![p] = TRUE]
        /\ server_errors' = [server_errors EXCEPT ![p] = @ \ {IdPair(comb[p])}]
        /\ UNCHANGED <<df, current, ids, comb, elapsed, before, console, ended>>

\* the classification with the test of isNew outside "if is_new_word"
Classify_ever_unnested(p, code, body) ==
    LET out_elem == body.result
        found == out_elem # NOTHING
        new_word == found /\ ~has_element(current[p], out_elem)
        new_ever == body.isNew
    IN  /\ result' = [result EXCEPT ![p] = <<body>>]
        /\ is_new_word' = [is_new_word EXCEPT ![p] = new_word]
        /\ prefix' = [prefix EXCEPT ![p] =
                         IF ~found THEN "NOTHING"
                         ELSE IF ~new_word THEN "NEW RECIPE"
                         ELSE IF ~new_ever THEN "NEW WORD"
                         ELSE "NEW WORD EVER"]
        /\ history' = [history EXCEPT
                          ![p].new_recipes = IF found THEN @ + 1 ELSE @,
                          ![p].new_additions = IF new_word THEN @ + 1 ELSE @,
                          ![p].first_evers = IF new_ever THEN @ + 1 ELSE @]
        /\ pc' = [pc EXCEPT ![p] = IF new_word THEN "insert_element"
                                                ELSE "insert_combination"]
        /\ status' = [status EXCEPT ![p] = code]
        /\ requested' = [requested EXCEPT ![p] = TRUE]
        /\ server_errors' = [server_errors EXCEPT ![p] = @ \ {IdPair(comb[p])}]
        /\ UNCHANGED <<df, current, ids, comb, elapsed, before, console, ended>>


\* lines 220-239 of search_loop: the classification and the counters
Classify(p, code, body) ==
    LET out_elem == body.result
        found == out_elem # NOTHING
        new_word == found /\ ~has_element(current[p], out_elem)
        new_ever == new_word /\ body.isNew
    IN  /\ result' = [result EXCEPT ![p] = <<body>>]
        /\ is_new_word' = [is_new_word EXCEPT ![p] = new_word]
        /\ prefix' = [prefix EXCEPT ![p] =
                         IF ~found THEN "NOTHING"
                         ELSE IF ~new_word THEN "NEW RECIPE"
                         ELSE IF ~new_ever THEN "NEW WORD"
                         ELSE "NEW WORD EVER"]
        /\ history' = [history EXCEPT
                          ![p].new_recipes = IF found THEN @ + 1 ELSE @,
                          ![p].new_additions = IF new_word THEN @ + 1 ELSE @,
                          ![p].first_evers = IF new_ever THEN @ + 1 ELSE @]
        /\ pc' = [pc EXCEPT ![p] = IF new_word THEN "insert_element"
                                                ELSE "insert_combination"]
        /\ status' = [status EXCEPT ![p] = code]
        /\ requested' = [requested EXCEPT ![p] = TRUE]
        /\ server_errors' = [server_errors EXCEPT ![p] = @ \ {IdPair(comb[p])}]
        /\ UNCHANGED <<df, current, ids, comb, elapsed, before, console, ended>>

\* return response.json(), and the test of the result in search_loop
Json(p, code) ==
    \E body \in Bodies :
        IF body = None THEN NoResult(p, code) ELSE Classify(p, code, body[1])

\* combine: one requests.get and what the status code leads to
Combine(p) ==
    /\ pc[p] = "combine"
    /\ \E code \in Statuses :
        CASE code = 429 -> Backoff(p, code)
          [] code = 403 -> Backoff(p, code)
          [] code = 500 -> NoResult(p, code)
          [] code >= 400 -> Backoff(p, code)
          [] OTHER -> Json(p, code)
    /\ UNCHANGED <<db, fixed>>

\* the element insert with the discovered flag of the seed rows
InsertElement_undiscovered(p) ==
    /\ pc[p] = "insert_element"
    /\ LET r == result[p][1]
           rowid == lastrowid(elements)
       IN  IF r.result \in ElementNames(elements)
           THEN /\ Stop(p, "error", 0)
                /\ UNCHANGED elements
           ELSE /\ elements' = elements \cup
                        {[id |-> rowid, element |-> r.result, emoji |-> r.emoji,
                          discovered |-> FALSE]}
                /\ current' = [current EXCEPT ![p] = add(@, r.result, rowid)]
                /\ pc' = [pc EXCEPT ![p] = "insert_combination"]
                /\ UNCHANGED <<df, history, locals, console, ended>>
    /\ UNCHANGED <<combination, fixed>>

\* the element insert as INSERT OR REPLACE: the row of the name is written anew
InsertElement_replace(p) ==
    /\ pc[p] = "insert_element"
    /\ LET r == result[p][1]
           rowid == lastrowid(elements)
       IN  /\ elements' = {e \in elements : e.element # r.result} \cup
                    {[id |-> rowid, element |-> r.result, emoji |-> r.emoji,
                      discovered |-> r.isNew]}
           /\ current' = [current EXCEPT ![p] = add(@, r.result, rowid)]
           /\ pc' = [pc EXCEPT ![p] = "insert_combination"]
           /\ UNCHANGED <<df, history, locals, console, ended>>
    /\ UNCHANGED <<combination, fixed>>

\* insert_recipe, if is_new_word: INSERT INTO elements, commit, current.add
InsertElement(p) ==
    /\ pc[p] = "insert_element"
    /\ LET r == result[p][1]
           rowid == lastrowid(elements)
       IN  IF r.result \in ElementNames(elements)
           THEN /\ Stop(p, "error", 0)
                /\ UNCHANGED elements
           ELSE /\ elements' = elements \cup
                        {[id |-> rowid, element |-> r.result, emoji |-> r.emoji,
                          discovered |-> r.isNew]}
                /\ current' = [current EXCEPT ![p] = add(@, r.result, rowid)]
                /\ pc' = [pc EXCEPT ![p] = "insert_combination"]
                /\ UNCHANGED <<df, history, locals, console, ended>>
    /\ UNCHANGED <<combination, fixed>>

\* the row insert_recipe writes for the pair and the result of the run
Row(p) ==
    [ingr1 |-> comb[p][1][2], ingr2 |-> comb[p][2][2],
     out |-> get_id(current[p], result[p][1].result)]

\* the recipe insert without conn.commit(): the row is lost with the connection
InsertCombination_uncommitted(p) ==
    /\ pc[p] = "insert_combination"
    /\ pc' = [pc EXCEPT ![p] = "concat"]
    /\ UNCHANGED <<db, fixed, memory, locals, console, ended>>

\* insert_recipe from id_left to the commit of the recipe row; the except
\* clause returns df as it is and search_loop prints the line of the iteration
InsertCombination(p) ==
    /\ pc[p] = "insert_combination"
    /\ IF Row(p) \in combination
       THEN /\ PrintLine(p, prefix[p])
            /\ EndIteration(p)
            /\ UNCHANGED combination
       ELSE /\ combination' = combination \cup {Row(p)}
            /\ pc' = [pc EXCEPT ![p] = "concat"]
            /\ UNCHANGED <<ids, comb, result, is_new_word, prefix, elapsed, before,
                           console>>
    /\ UNCHANGED <<elements, fixed, memory, status, requested,
                   server_errors, ended>>

\* the end of the iteration without the pd.concat that extends df
Concat_no_concat(p) ==
    /\ pc[p] = "concat"
    /\ PrintLine(p, prefix[p])
    /\ EndIteration(p)
    /\ UNCHANGED <<db, fixed, memory, status, requested, server_errors, ended>>

\* insert_recipe after the commit: df = pd.concat([df, df_new]); and the print
\* that ends the iteration
Concat(p) ==
    /\ pc[p] = "concat"
    /\ df' = [df EXCEPT ![p] = @ \cup {Row(p)}]
    /\ PrintLine(p, prefix[p])
    /\ EndIteration(p)
    /\ UNCHANGED <<db, fixed, current, history, status, requested,
                   server_errors, ended>>

\* CTRL+C: KeyboardInterrupt is raised wherever the run is
Interrupt(p) ==
    /\ pc[p] # "stopped"
    /\ Stop(p, "interrupt", 0)
    /\ UNCHANGED <<db, fixed>>

----------------------------------------------------------------------------
(* ElementIds.add on its own: a call on a loaded registry *)

\* the registries load_data builds from the seed rows the sampler draws from
Registries ==
    {load_data(ElementIds_init, t) : t \in SUBSET {e \in SeedElements : e.id \in DrawnIds}}

\* the names and ids add is called with: a seed name and an unseen one, the id
\* of a seed row and a fresh one
AddNames == {"Fire", "Steam"}

AddIds == {3, 4}

InitAdd ==
    /\ elements = {}
    /\ combination = {}
    /\ SIMPLE_COMBINES = [p \in Runs |-> FALSE]
    /\ pc = [p \in Runs |-> "add"]
    /\ df = [p \in Runs |-> {}]
    /\ current \in [Runs -> Registries]
    /\ history = [p \in Runs |-> History]
    /\ ids = [p \in Runs |-> NoPair]
    /\ comb = [p \in Runs |-> NoPair]
    /\ result = [p \in Runs |-> None]
    /\ is_new_word = [p \in Runs |-> FALSE]
    /\ prefix = [p \in Runs |-> ""]
    /\ status = [p \in Runs |-> 0]
    /\ elapsed = [p \in Runs |-> 0]
    /\ requested = [p \in Runs |-> FALSE]
    /\ printed = [p \in Runs |-> ""]
    /\ lines = [p \in Runs |-> 0]
    /\ before = [p \in Runs |-> History]
    /\ server_errors = [p \in Runs |-> {}]
    /\ exit = [p \in Runs |-> ""]
    /\ summary = [p \in Runs |-> None]
    /\ called \in [Runs -> AddNames \X AddIds]

\* current.add(element, id): the two assignments, and the return
Add(p) ==
    /\ pc[p] = "add"
    /\ current' = [current EXCEPT ![p] = add(@, called[p][1], called[p][2])]
    /\ pc' = [pc EXCEPT ![p] = "returned"]
    /\ UNCHANGED <<db, fixed, df, history, locals, console, ended>>

NextAdd == \E p \in Runs : Add(p)

SpecAdd == InitAdd /\ [][NextAdd]_vars

----------------------------------------------------------------------------
(* the runs of the script *)

\* iterations a run has started, also after it has stopped
Started(p) == IF summary[p] = None THEN history[p].checked ELSE summary[p][1].checked

RECURSIVE StartedBy(_)
StartedBy(runs) ==
    IF runs = {} THEN 0
    ELSE LET p == CHOOSE x \in runs : TRUE
         IN Started(p) + StartedBy(runs \ {p})

\* no other run is under way
Alone(p) == \A q \in Runs \ {p} : pc[q] \in {"main", "stopped"}

\* the steps of a run after the first, but for the start of an iteration
Rest(p) ==
    \/ Populate(p)
    \/ ReadSql(p)
    \/ LoadData(p)
    \/ RecipeExists(p)
    \/ Combine(p)
    \/ InsertElement(p)
    \/ InsertCombination(p)
    \/ Concat(p)
    \/ Interrupt(p)

\* the runs of the script on one database, in any interleaving
Next ==
    \E p \in Runs :
        \/ PopulateIfEmpty(p)
        \/ StartedBy(Runs) < MaxStarted /\ Sample(p)
        \/ Rest(p)

Spec == Init /\ [][Next]_vars

\* one run at a time: a run starts when no other run is under way
NextSeq ==
    \E p \in Runs :
        \/ Alone(p) /\ PopulateIfEmpty(p)
        \/ Sample(p)
        \/ Rest(p)

SpecSeq == Init /\ [][NextSeq]_vars

----------------------------------------------------------------------------
(* vocabulary of the properties *)

\* the run took a step
Acted(p) == pc'[p] # pc[p] \/ history'[p] # history[p] \/ elapsed'[p] # elapsed[p]

\* the run took a step and was not interrupted or ended by an error
Ran(p, from, to) == pc[p] = from /\ pc'[p] = to /\ Acted(p)

\* the rows of a table or frame for the ingredient ids of a combination
RowsOf(rows, pair) == {r \in rows : r.ingr1 = pair[1] /\ r.ingr2 = pair[2]}

\* the name the elements table has for an id
NameOf(id) == (CHOOSE e \in elements : e.id = id).element

----------------------------------------------------------------------------
\* C1: the combination table never holds two rows with the same ingredient
\* pair (ingr1, ingr2), whatever the runs do and whatever the service answers.
\* The table is UNIQUE on (ingr1, ingr2, out) only: two runs that are answered
\* differently for one pair both insert their row.
C1_NoTwoRowsSamePair ==
    \A r1 \in combination, r2 \in combination :
        (r1.ingr1 = r2.ingr1 /\ r1.ingr2 = r2.ingr2) => r1 = r2

\* every row of the table and of the frames has the name of ingr1 before that
\* of ingr2
C2_RowsOrdered ==
    \A r \in combination \cup UNION {df[p] : p \in Runs} :
        StrLess(NameOf(r.ingr1), NameOf(r.ingr2))

----------------------------------------------------------------------------
\* C2: a pair reaches the dedup check, and is recorded in df and in the
\* combination table, with the ingredient whose name sorts first on the left,
\* whichever of the two ids random.sample drew first; and a pair that df holds
\* is answered SKIP when it is drawn again, in either order.
C2_CanonicalOrder ==
    [][/\ C2_RowsOrdered'
       /\ \A p \in Runs :
            /\ Ran(p, "sample", "recipe_exists") =>
                  /\ StrLess(comb'[p][1][1], comb'[p][2][1])
                  /\ {comb'[p][1][2], comb'[p][2][2]} = {ids'[p][1], ids'[p][2]}
                  /\ \A i \in 1..2 :
                        comb'[p][i][1] = current[p].id_to_element[comb'[p][i][2]]
            /\ ( /\ pc[p] = "recipe_exists" /\ Acted(p) /\ exit'[p] # "interrupt"
                 /\ \E r \in df[p] : {r.ingr1, r.ingr2} = {ids[p][1], ids[p][2]} )
               => (pc'[p] = "sample" /\ printed'[p] = "SKIP")
      ]_vars

\* a recorded pair is drawn again, second ingredient first
C2_Witness ==
    \E p \in Runs :
        /\ pc[p] = "recipe_exists"
        /\ ids[p][1] = comb[p][2][2]
        /\ RowsOf(df[p], IdPair(comb[p])) # {}

----------------------------------------------------------------------------
\* C3: when the pair that reaches the dedup check is already in df, the
\* iteration prints SKIP and ends: no request is sent and the registry, df, the
\* two tables and the counters are left as they were.
C3_SkipShortCircuits ==
    [][\A p \in Runs :
          ( /\ pc[p] = "recipe_exists" /\ Acted(p) /\ exit'[p] # "interrupt"
            /\ RowsOf(df[p], IdPair(comb[p])) # {} )
          => /\ pc'[p] = "sample"
             /\ printed'[p] = "SKIP"
             /\ lines'[p] = lines[p] + 1
             /\ requested'[p] = FALSE
             /\ current'[p] = current[p]
             /\ df'[p] = df[p]
             /\ history'[p] = history[p]
             /\ elements' = elements
             /\ combination' = combination
      ]_vars

\* an iteration has ended with SKIP
C3_Witness ==
    \E p \in Runs :
        /\ pc[p] = "sample"
        /\ printed[p] = "SKIP"
        /\ ~requested[p]
        /\ df[p] # {}

----------------------------------------------------------------------------
\* C4: an answer of HTTP 500 ends the iteration with "No result" and leaves the
\* pair out of df and out of the combination table; when the pair is drawn
\* again it passes the dedup check and a request is sent for it.
C4_ServerErrorLeavesPairUnknown ==
    [][\A p \in Runs :
          /\ (pc[p] = "combine" /\ Acted(p) /\ status'[p] = 500)
             => /\ pc'[p] = "sample"
                /\ printed'[p] = "No result"
                /\ df'[p] = df[p]
                /\ combination' = combination
                /\ RowsOf(df'[p], IdPair(comb[p])) = {}
                /\ RowsOf(combination', IdPair(comb[p])) = {}
                /\ IdPair(comb[p]) \in server_errors'[p]
          /\ ( /\ pc[p] = "recipe_exists" /\ Acted(p) /\ exit'[p] # "interrupt"
               /\ IdPair(comb[p]) \in server_errors[p] )
             => (pc'[p] = "combine" /\ ~requested'[p])
          /\ (pc[p] = "combine" /\ Acted(p) /\ exit'[p] # "interrupt")
             => (requested'[p] \/ exit'[p] = "error")
      ]_vars

\* a request has been sent again for a pair that was answered 500 before
C4_Witness ==
    \E p \in Runs :
        /\ pc[p] = "combine"
        /\ IdPair(comb[p]) \in server_errors[p]
        /\ requested[p]
        /\ status[p] = 429

----------------------------------------------------------------------------
\* C5: every answer with a status of the 5xx class ends the iteration with
\* "No result" at once: the request is not repeated.
\* Only 500 is returned as None; raise_for_status raises for the other 5xx
\* codes and backoff repeats the request.
C5_ServerErrorClassNotRetried ==
    [][\A p \in Runs :
          (pc[p] = "combine" /\ Acted(p) /\ status'[p] >= 500)
          => (pc'[p] = "sample" /\ printed'[p] = "No result")
      ]_vars

----------------------------------------------------------------------------
\* C6: an answer of 429 that comes when the retry budget is spent stops the run
\* with an error (and only then does a 429 stop it); the summary printed is the
\* History as it stood, the tables are untouched, and a stopped run takes no
\* further step.
C6_RateLimitFatal ==
    [][\A p \in Runs :
          /\ (pc[p] = "combine" /\ Acted(p) /\ status'[p] = 429 /\ elapsed[p] >= MaxTime)
             => /\ pc'[p] = "stopped"
                /\ exit'[p] = "error"
                /\ summary'[p] = <<history[p]>>
                /\ elements' = elements
                /\ combination' = combination
          /\ (pc[p] = "combine" /\ pc'[p] = "stopped" /\ status'[p] = 429)
             => elapsed[p] >= MaxTime
          /\ pc[p] = "stopped"
             => (pc'[p] = "stopped" /\ summary'[p] = summary[p] /\ exit'[p] = exit[p])
      ]_vars

\* a run that had found a recipe has been stopped by 429s
C6_Witness ==
    \E p \in Runs :
        /\ pc[p] = "stopped"
        /\ exit[p] = "error"
        /\ status[p] = 429
        /\ summary[p][1].checked = 2
        /\ summary[p][1].new_recipes = 1

----------------------------------------------------------------------------
(* a Success and its recording *)

\* the run has just been answered 200 with a result
Answered(p) == pc[p] = "combine" /\ Acted(p) /\ result'[p] # None

\* the run carries out the recipe insert
Recording(p) == pc[p] = "insert_combination" /\ Acted(p) /\ exit'[p] # "interrupt"

\* the run extends df after the insert and ends its iteration
Concatenating(p) == pc[p] = "concat" /\ Acted(p) /\ exit'[p] # "interrupt"

\* the id the elements table has for a name
IdOf(name) == (CHOOSE e \in elements : e.element = name).id

\* the row of the pair of the run with the result of the run
RecipeRow(p) ==
    [ingr1 |-> comb[p][1][2], ingr2 |-> comb[p][2][2], out |-> IdOf(result[p][1].result)]

\* the counters of the run, as they were when the iteration began, plus these
Counted(p, recipes, additions, evers) ==
    [checked |-> before[p].checked + 1,
     new_recipes |-> before[p].new_recipes + recipes,
     new_additions |-> before[p].new_additions + additions,
     first_evers |-> before[p].first_evers + evers]

----------------------------------------------------------------------------
\* C7: a Success whose result is not the sentinel and is a name the registry
\* has: new_recipes goes up by one, new_additions and first_evers stay, no
\* element row is added, one recipe row (the pair -> the id the name already
\* has) is added to the combination table and to df, and the line printed is
\* NEW RECIPE.
C7_KnownResult ==
    [][\A p \in Runs :
          /\ ( /\ Answered(p)
               /\ result'[p][1].result # NOTHING
               /\ result'[p][1].result \in DOMAIN current[p].element_to_id )
             => /\ history'[p] = [history[p] EXCEPT !.new_recipes = @ + 1]
                /\ prefix'[p] = "NEW RECIPE"
                /\ ~is_new_word'[p]
                /\ pc'[p] = "insert_combination"
                /\ elements' = elements
          /\ (Recording(p) /\ result[p][1].result # NOTHING /\ ~is_new_word[p])
             => /\ RecipeRow(p) \notin combination
                /\ combination' = combination \cup {RecipeRow(p)}
                /\ elements' = elements
                /\ current'[p] = current[p]
                /\ history'[p] = history[p]
                /\ pc'[p] = "concat"
          /\ (Concatenating(p) /\ result[p][1].result # NOTHING /\ ~is_new_word[p])
             => /\ RecipeRow(p) \in combination
                /\ RecipeRow(p) \notin df[p]
                /\ df'[p] = df[p] \cup {RecipeRow(p)}
                /\ db' = db
                /\ current'[p] = current[p]
                /\ history'[p] = Counted(p, 1, 0, 0)
                /\ printed'[p] = "NEW RECIPE"
                /\ pc'[p] = "sample"
      ]_vars

\* a NEW RECIPE has been recorded
C7_Witness ==
    \E p \in Runs :
        /\ pc[p] = "sample"
        /\ printed[p] = "NEW RECIPE"
        /\ history[p].new_recipes = 1
        /\ history[p].new_additions = 0
        /\ \E r \in df[p] : r \in combination /\ NameOf(r.out) = "Fire"

----------------------------------------------------------------------------
\* C8: a Success whose result is a name the registry does not have:
\* new_additions goes up by one and first_evers by one exactly when isNew is
\* true; one element row is added, with discovered = isNew, and the registry
\* maps the name to the id of that row and back; the line printed is NEW WORD
\* EVER when isNew is true and NEW WORD otherwise.
C8_NewWord ==
    [][\A p \in Runs :
          /\ ( /\ Answered(p)
               /\ result'[p][1].result \notin DOMAIN current[p].element_to_id )
             => /\ history'[p].new_additions = history[p].new_additions + 1
                /\ history'[p].first_evers =
                      history[p].first_evers + (IF result'[p][1].isNew THEN 1 ELSE 0)
                /\ history'[p].checked = history[p].checked
                /\ prefix'[p] = IF result'[p][1].isNew THEN "NEW WORD EVER" ELSE "NEW WORD"
                /\ is_new_word'[p]
                /\ pc'[p] = "insert_element"
                /\ elements' = elements
          /\ (pc[p] = "insert_element" /\ Acted(p) /\ exit'[p] # "interrupt")
             => \E e \in elements' :
                   /\ e \notin elements
                   /\ elements' = elements \cup {e}
                   /\ \A x \in elements : x.id # e.id /\ x.element # e.element
                   /\ e.element = result[p][1].result
                   /\ e.emoji = result[p][1].emoji
                   /\ e.discovered = result[p][1].isNew
                   /\ current'[p].element_to_id =
                         (e.element :> e.id) @@ current[p].element_to_id
                   /\ current'[p].id_to_element =
                         (e.id :> e.element) @@ current[p].id_to_element
                   /\ e.id \notin DOMAIN current[p].id_to_element
                   /\ history'[p] = history[p]
                   /\ pc'[p] = "insert_combination"
          /\ (Recording(p) /\ is_new_word[p])
             => /\ elements' = elements
                /\ current'[p] = current[p]
                /\ pc'[p] = "concat"
          /\ (Concatenating(p) /\ is_new_word[p])
             => /\ history'[p] = Counted(p, 1, 1, IF result[p][1].isNew THEN 1 ELSE 0)
                /\ printed'[p] = IF result[p][1].isNew THEN "NEW WORD EVER" ELSE "NEW WORD"
                /\ elements' = elements
                /\ current'[p] = current[p]
                /\ pc'[p] = "sample"
      ]_vars

\* a word nobody had found has been recorded
C8_Witness ==
    \E p \in Runs :
        /\ pc[p] = "sample"
        /\ printed[p] = "NEW WORD EVER"
        /\ history[p].new_additions = 1
        /\ history[p].first_evers = 1
        /\ \E e \in elements :
              /\ e.element = "Steam" /\ e.discovered
              /\ current[p].element_to_id["Steam"] = e.id

----------------------------------------------------------------------------
\* C9: a Success whose result is the sentinel: the recipe row (the pair -> the
\* id of the Nothing element) is added to the combination table and to df,
\* new_recipes, new_additions and first_evers stay, the line printed is NOTHING;
\* rows are never removed from the table or from the df of a run in its loop,
\* so the pair is answered SKIP from then on.
C9_NothingRecorded ==
    [][/\ combination \subseteq combination'
       /\ \A p \in Runs :
          /\ (Answered(p) /\ result'[p][1].result = NOTHING)
             => /\ history'[p] = history[p]
                /\ prefix'[p] = "NOTHING"
                /\ pc'[p] = "insert_combination"
          /\ (Recording(p) /\ result[p][1].result = NOTHING)
             => /\ NameOf(RecipeRow(p).out) = NOTHING
                /\ RecipeRow(p) \in combination'
                /\ history'[p] = history[p]
                /\ pc'[p] = "concat"
          /\ (Concatenating(p) /\ result[p][1].result = NOTHING)
             => /\ NameOf(RecipeRow(p).out) = NOTHING
                /\ RecipeRow(p) \in combination'
                /\ RecipeRow(p) \in df'[p]
                /\ RowsOf(df'[p], IdPair(comb[p])) # {}
                /\ history'[p] = Counted(p, 0, 0, 0)
                /\ printed'[p] = "NOTHING"
                /\ pc'[p] = "sample"
          /\ (pc[p] \in {"sample", "recipe_exists"} /\ pc'[p] # "stopped")
             => df[p] \subseteq df'[p]
          /\ (pc[p] \in {"combine", "insert_element", "insert_combination", "concat"}
                /\ pc'[p] # "stopped")
             => df[p] \subseteq df'[p]
      ]_vars

\* a pair recorded with the sentinel as its result is at the dedup check again
C9_Witness ==
    \E p \in Runs :
        /\ pc[p] = "recipe_exists"
        /\ history[p].checked = 2
        /\ history[p].new_recipes = 0
        /\ \E r \in RowsOf(df[p], IdPair(comb[p])) : NameOf(r.out) = NOTHING

----------------------------------------------------------------------------
\* C10: when the recipe insert is rejected because the row is in the table
\* already, the loop goes on and the recipe is not counted: new_recipes is no
\* higher after the iteration than it was before it.
\* new_recipes is incremented before insert_recipe is called and the except
\* clause leaves it incremented.
C10_RejectedInsertNotCounted ==
    [][\A p \in Runs :
          (Recording(p) /\ RecipeRow(p) \in combination)
          => /\ pc'[p] = "sample"
             /\ history'[p].new_recipes <= before[p].new_recipes
      ]_vars

----------------------------------------------------------------------------
\* C11: every row of the df of a run is a committed row of the combination
\* table, in every state, also when a run was interrupted or ended by an error
\* between two steps of the recording; and a row enters df only when the table
\* holds it already, from the commit of an earlier step.
C11_LedgerBehindStore ==
    [][\A p \in Runs :
          /\ df'[p] \subseteq combination'
          /\ \A r \in df'[p] \ df[p] : r \in combination
      ]_vars

\* a run has committed a row and not yet put it into df, and another run that
\* started with it in df is in its loop
C11_Witness ==
    \E p \in Runs, q \in Runs :
        /\ pc[p] = "concat"
        /\ Row(p) \in combination \ df[p]
        /\ pc[q] = "sample"
        /\ Row(p) \in df[q]

----------------------------------------------------------------------------
\* C12: no two rows of the elements table have the same name, whatever two
\* runs on the one database do; a row, once written, stays as it is (id, emoji
\* and discovered flag); and an insert under a name the table holds already
\* (from populate_if_empty or from insert_recipe) is rejected: the table is
\* left as it was and the run ends with the error.
C12_ElementNamesUnique ==
    [][/\ \A e1 \in elements', e2 \in elements' : e1.element = e2.element => e1 = e2
       /\ elements \subseteq elements'
       /\ \A p \in Runs :
            /\ ( /\ pc[p] = "insert_element" /\ Acted(p) /\ exit'[p] # "interrupt"
                 /\ result[p][1].result \in ElementNames(elements) )
               => (elements' = elements /\ pc'[p] = "stopped" /\ exit'[p] = "error")
            /\ ( /\ pc[p] = "populate" /\ Acted(p) /\ exit'[p] # "interrupt"
                 /\ ElementNames(elements) # {} )
               => (elements' = elements /\ pc'[p] = "stopped" /\ exit'[p] = "error")
      ]_vars

\* a run found a word that another run had inserted in the meantime, and its
\* insert was rejected
C12_Witness ==
    \E p \in Runs :
        /\ pc[p] = "stopped"
        /\ exit[p] = "error"
        /\ status[p] = 0
        /\ summary[p][1].new_additions = 1
        /\ Cardinality({e \in elements : e.element = "Steam"}) = 1

----------------------------------------------------------------------------
\* C13: a call of add with a name the registry holds already does not return:
\* it fails with Conflict, and element_to_id and id_to_element are left as they
\* were.
\* add assigns both dictionaries whatever they hold: the name gets the new id
\* and the old id still maps to the name.
C13_AddConflict ==
    [][\A p \in Runs :
          (pc[p] = "add" /\ pc'[p] # "add" /\ has_element(current[p], called[p][1]))
          => /\ pc'[p] = "Conflict"
             /\ current'[p].element_to_id = current[p].element_to_id
             /\ current'[p].id_to_element = current[p].id_to_element
      ]_vars

----------------------------------------------------------------------------
(* the filter of the simple combinations *)

\* the characters of the names of the model
Chars(name) ==
    CASE name = "Earth" -> {"E", "a", "r", "t", "h"}
      [] name = "Fire" -> {"F", "i", "r", "e"}
      [] name = "Nothing" -> {"N", "o", "t", "h", "i", "n", "g"}
      [] name = "Steam" -> {"S", "t", "e", "a", "m"}
      [] name = "Water" -> {"W", "a", "t", "e", "r"}
      [] name = "Wind" -> {"W", "i", "n", "d"}

\* the name holds one of the characters of settings.NON_SIMPLE_CHARS
NonSimple(name) == Chars(name) \cap NON_SIMPLE_CHARS # {}

\* C14: with SIMPLE_COMBINES set, the pair that was sampled is rejected (the
\* loop samples again) exactly when one of its two names holds a character of
\* NON_SIMPLE_CHARS; a pair of two names without such a character goes on to
\* the dedup check.
\* are_chars_in_string returns bool() of a generator object, which is True for
\* every name: every pair is rejected.
C14_FilterByChars ==
    [][\A p \in Runs :
          ( /\ pc[p] = "sample" /\ Acted(p) /\ pc'[p] # "stopped"
            /\ SIMPLE_COMBINES[p] )
          => /\ (pc'[p] = "sample")
                   <=> (NonSimple(comb'[p][1][1]) \/ NonSimple(comb'[p][2][1]))
             /\ (pc'[p] # "sample") => pc'[p] = "recipe_exists"
      ]_vars

----------------------------------------------------------------------------
\* the tags of the outcome lines ("No result" is how the loop writes NO RESULT)
Tags == {"SKIP", "No result", "NOTHING", "NEW RECIPE", "NEW WORD", "NEW WORD EVER"}

\* C15: between two iterations the run has printed as many outcome lines as it
\* has counted in checked, the last of them with one of the six tags, with the
\* filter enabled or not.
\* An iteration the filter rejects is counted in checked and prints no line.
C15_OneLinePerIteration ==
    \A p \in Runs :
        pc[p] = "sample"
        => /\ lines[p] = history[p].checked
           /\ lines[p] > 0 => printed[p] \in Tags

----------------------------------------------------------------------------
\* the run has sent the request of its iteration or is recording the answer
MidIteration(p) ==
    \/ pc[p] = "combine" /\ requested[p]
    \/ pc[p] \in {"insert_element", "insert_combination", "concat"}

\* the rows of the words the loop found for which the table has no recipe
Orphans(elems, combs) ==
    {e \in elems \ SeedElements : \A r \in combs : r.out # e.id}

\* C16: an interrupt ends a run only between two iterations, never one that
\* has sent its request or is recording the answer; so when a run has been
\* interrupted every word the loop found has a recipe row in the table.
\* KeyboardInterrupt is raised wherever the run is, also between the commit of
\* the element row and the insert of the recipe row.
C16_InterruptAtBoundary ==
    [][\A p \in Runs :
          (exit'[p] = "interrupt" /\ exit[p] # "interrupt")
          => /\ ~MidIteration(p)
             /\ Orphans(elements', combination') = {}
      ]_vars

----------------------------------------------------------------------------
\* C17: with one run at a time on the database, a run that is about to send,
\* or has sent, the request for a pair finds no recipe row for the pair in the
\* combination table; from its first sample on the df of the run holds the
\* rows of the table (all but the one being recorded) and its registry the
\* rows of the elements table, also when the run started after another was
\* stopped at any point.
C17_NoRequestForKnownPair ==
    \A p \in Runs :
        /\ pc[p] = "combine" => RowsOf(combination, IdPair(comb[p])) = {}
        /\ pc[p] \in {"sample", "recipe_exists", "combine", "insert_element",
                      "insert_combination"}
           => df[p] = combination
        /\ pc[p] = "concat" => df[p] = combination \ {Row(p)}
        /\ pc[p] \in {"sample", "recipe_exists", "combine", "insert_element"}
           => current[p] = load_data(ElementIds_init, elements)
        /\ pc[p] \in {"insert_combination", "concat"}
           => /\ \A e \in elements : get_id(current[p], e.element) = e.id
              /\ \A e \in elements : get_element(current[p], e.id) = e.element

\* a run that started after another was interrupted has sent a request, with
\* recipes of the earlier run in the table
C17_Witness ==
    \E p \in Runs, q \in Runs :
        /\ pc[q] = "stopped"
        /\ exit[q] = "interrupt"
        /\ summary[q][1].new_recipes > 0
        /\ pc[p] = "combine"
        /\ requested[p]
        /\ combination # {}

----------------------------------------------------------------------------
\* first_evers <= new_additions <= new_recipes <= checked
Ordered(h) ==
    /\ 0 <= h.first_evers
    /\ h.first_evers <= h.new_additions
    /\ h.new_additions <= h.new_recipes
    /\ h.new_recipes <= h.checked

\* no counter of g is below that of h
NotBelow(g, h) ==
    /\ g.checked >= h.checked
    /\ g.new_recipes >= h.new_recipes
    /\ g.new_additions >= h.new_additions
    /\ g.first_evers >= h.first_evers

\* C18: the counters of a run are ordered first_evers <= new_additions <=
\* new_recipes <= checked in every state, also in the middle of an iteration
\* and in the summary main prints, and no step of the run lowers one of them;
\* a step changes checked only at the start of an iteration and the other
\* three only when the answer is classified.
C18_CountersOrdered ==
    [][\A p \in Runs :
          /\ Ordered(history'[p])
          /\ pc'[p] # "stopped" => NotBelow(history'[p], history[p])
          /\ (pc[p] # "stopped" /\ pc'[p] = "stopped") => summary'[p] = <<history[p]>>
          /\ summary'[p] # None => Ordered(summary'[p][1])
          /\ history'[p].checked # history[p].checked
             => (pc[p] = "sample" \/ pc'[p] = "stopped")
          /\ history'[p].new_recipes # history[p].new_recipes
             => (pc[p] = "combine" \/ pc'[p] = "stopped")
      ]_vars

\* a run has counted a first discovery in the second of its iterations
C18_Witness ==
    \E p \in Runs :
        /\ pc[p] = "sample"
        /\ history[p] = [checked |-> 2, new_recipes |-> 1, new_additions |-> 1,
                         first_evers |-> 1]

----------------------------------------------------------------------------
\* C19: the pair of an iteration, from the dedup check to the end of the
\* recording, has two different ids, carries for each id the name the elements
\* table has for it, and has the name of the first strictly before the name of
\* the second; and so has every row of the combination table and of the df of
\* a run: no row has ingr1 = ingr2.
C19_DistinctIngredients ==
    /\ \A p \in Runs :
          pc[p] \in {"recipe_exists", "combine", "insert_element", "insert_combination",
                     "concat"}
          => /\ comb[p][1][2] # comb[p][2][2]
             /\ comb[p][1][1] = NameOf(comb[p][1][2])
             /\ comb[p][2][1] = NameOf(comb[p][2][2])
             /\ StrLess(comb[p][1][1], comb[p][2][1])
    /\ \A r \in combination \cup UNION {df[p] : p \in Runs} :
          /\ r.ingr1 # r.ingr2
          /\ StrLess(NameOf(r.ingr1), NameOf(r.ingr2))

\* a row is recorded for a pair whose first name has the higher id
C19_Witness ==
    \E p \in Runs :
        /\ pc[p] = "concat"
        /\ requested[p]
        /\ Row(p) \in combination
        /\ Row(p).ingr1 > Row(p).ingr2

----------------------------------------------------------------------------
\* one of the two names of the pair of the run is the sentinel
WithNothing(p) == NOTHING \in {comb[p][1][1], comb[p][2][1]}

\* C20: the registry of a run in its loop holds the sentinel, and the sampler
\* may draw its id first or second with every other id it draws from; a pair
\* with the sentinel that df does not hold goes on to the request, under the
\* name "Nothing", and the row recorded for it has the id of the sentinel as
\* ingr1 or ingr2.
C20_NothingIsSampled ==
    [][\A p \in Runs :
          /\ pc'[p] = "sample"
             => LET cur == current'[p]
                    n == get_id(cur, NOTHING)
                IN  /\ has_element(cur, NOTHING)
                    /\ get_element(cur, n) = NOTHING
                    /\ \A o \in (DOMAIN cur.id_to_element \cap DrawnIds) \ {n} :
                          <<n, o>> \in Samples(cur) /\ <<o, n>> \in Samples(cur)
          /\ ( /\ pc[p] = "recipe_exists" /\ Acted(p) /\ exit'[p] # "interrupt"
               /\ WithNothing(p)
               /\ RowsOf(df[p], IdPair(comb[p])) = {} )
             => (pc'[p] = "combine" /\ comb'[p] = comb[p] /\ WithNothing(p)')
          /\ (Recording(p) /\ WithNothing(p) /\ RecipeRow(p) \notin combination)
             => \E r \in combination' \ combination :
                   /\ IdOf(NOTHING) \in {r.ingr1, r.ingr2}
                   /\ <<r.ingr1, r.ingr2>> = IdPair(comb[p])
      ]_vars

\* the table has a row with the sentinel as ingr1 and one with it as ingr2
C20_Witness ==
    \E r1 \in combination, r2 \in combination :
        /\ NameOf(r1.ingr1) = NOTHING
        /\ NameOf(r2.ingr2) = NOTHING

====
